---- MODULE Spec2Model ----
(***************************************************************************)
(* Breadth-first simulation of a nondeterministic Turing machine, as done  *)
(* by NonDeterministicTM.execute in traceTM_newdrop.py.                    *)
(*                                                                         *)
(* A tape half is a sequence of one-character symbols (the Python string   *)
(* and the list(...) / "".join(...) pair that converts it); a              *)
(* configuration is the triple <<tape_left, current_state, tape_right>>;   *)
(* config_tree is the list of levels.  The run is followed statement by    *)
(* statement through pc: "idle" (constructed, execute not yet called),     *)
(* "while" (loop test, line 50), "for" (the level scan, line 54, at        *)
(* position idx), "report" (print_accept_path) and "done".  What a run has  *)
(* printed is kept in outcome, out_depth, out_steps, num_configs, listed   *)
(* and average, and log collects the printed reports of the calls made on  *)
(* the instance.                                                           *)
(***************************************************************************)
EXTENDS Integers, Sequences, FiniteSets, TLC

VARIABLES rules, start, accept, reject, depth_limit, transition_limit,
          input_data, config_tree, next_level, idx, steps_count, pc,
          outcome, out_depth, out_steps, num_configs, failure,
          listed, average, log

vars == <<rules, start, accept, reject, depth_limit, transition_limit,
          input_data, config_tree, next_level, idx, steps_count, pc,
          outcome, out_depth, out_steps, num_configs, failure,
          listed, average, log>>

machine == <<rules, start, accept, reject>>

(***************************************************************************)
(* Bounds of the exploration.                                              *)
(***************************************************************************)
MaxRules == 2
MaxBlankRules == 1
MaxInputLen == 2
MaxDepthArg == 5
MaxStepsArg == 5
SmallRules == 2
SmallInputLen == 1
SmallLimit == 2
MaxRuns == 2

BLANK == "_"
NoVal == -1

(***************************************************************************)
(* The machine descriptions the loader can have produced.                  *)
(***************************************************************************)
RuleChoices ==
    { <<"q0", "a", "R">>, <<"q0", "_", "R">>, <<"q0", "a", "L">>,
      <<"qacc", "a", "R">>, <<"qrej", "a", "R">>, <<"q1", "a", "R">> }

RuleLists(n) == UNION { [1..k -> RuleChoices] : k \in 0..n }

KeyA == <<"q0", "a">>
KeyBlank == <<"q0", BLANK>>

\* load_from_file appends to a defaultdict: a key exists only once a rule
\* row names it.
MkRules(la, lb) ==
    [ k \in ({ KeyA : x \in { 1 : y \in 1..Len(la) } }
             \cup { KeyBlank : x \in { 1 : y \in 1..Len(lb) } })
        |-> IF k = KeyA THEN la ELSE lb ]

EmptyRules == MkRules(<< >>, << >>)

Machines ==
    { [rules |-> MkRules(la, lb), start |-> "q0"] :
          la \in RuleLists(MaxRules), lb \in RuleLists(MaxBlankRules) }
    \cup { [rules |-> EmptyRules, start |-> "qacc"],
           [rules |-> EmptyRules, start |-> "qrej"] }

Inputs == UNION { [1..k -> {"a"}] : k \in 0..MaxInputLen }

(***************************************************************************)
(* Helpers of execute.                                                     *)
(***************************************************************************)
Last(s) == s[Len(s)]
Front(s) == SubSeq(s, 1, Len(s) - 1)

\* line 66: tape_right[0] if tape_right else "_"
HeadSymbol(tape_right) == IF tape_right # << >> THEN tape_right[1] ELSE BLANK

\* Faulty variant: only the first rule of an entry is returned.
TransitionsFirstOnly(state, symbol) ==
    IF <<state, symbol>> \in DOMAIN rules
    THEN SubSeq(rules[<<state, symbol>>], 1, 1)
    ELSE << >>

\* line 74: self.rules.get((state, symbol), [])
Transitions(state, symbol) ==
    IF <<state, symbol>> \in DOMAIN rules THEN rules[<<state, symbol>>] ELSE << >>

\* Faulty variant: the symbol is inserted before the head cell instead of
\* replacing it.
WriteSymbolInserted(tape_right, w) == <<w>> \o tape_right

\* lines 86-89
WriteSymbol(tape_right, w) ==
    IF tape_right # << >> THEN [tape_right EXCEPT ![1] = w] ELSE <<w>>

\* lines 83-104: one rule applied to one configuration
ApplyRule(cfg, rule) ==
    LET w_right == WriteSymbol(cfg[3], rule[2])
        left == cfg[1]
    IN  IF rule[3] = "L"
        THEN IF left # << >>
             THEN <<Front(left), rule[1], <<Last(left)>> \o w_right>>
             ELSE <<left, rule[1], <<BLANK>> \o w_right>>
        ELSE IF rule[3] = "R"
        THEN <<left \o <<w_right[1]>>, rule[1],
               IF Tail(w_right) # << >> THEN Tail(w_right) ELSE <<BLANK>>>>
        ELSE <<left, rule[1], w_right>>

\* Faulty variant: the stuck branch silently vanishes.
NoRuleSuccessorsDropped(cfg) == << >>

\* Faulty variant: the stuck branch is sent to the accept state.
NoRuleSuccessorsAccept(cfg) == << <<cfg[1], accept, cfg[3]>> >>

\* lines 76-79: the successor synthesized for a configuration without a rule
NoRuleSuccessors(cfg) == << <<cfg[1], reject, cfg[3]>> >>

\* Faulty variant: the successors are appended in reverse rule order.
RuleSuccessorsReversed(cfg, transitions) ==
    [ i \in 1..Len(transitions) |->
        ApplyRule(cfg, transitions[Len(transitions) + 1 - i]) ]

\* lines 82-104: the successors in rule order
RuleSuccessors(cfg, transitions) ==
    [ i \in 1..Len(transitions) |-> ApplyRule(cfg, transitions[i]) ]

\* Faulty variant: the first configuration of a level is not tested for acceptance.
IsAcceptSkipFirst(cfg) == cfg[2] = accept /\ idx > 1

\* line 55
IsAccept(cfg) == cfg[2] = accept

\* Faulty variant: rejecting configurations are not skipped.
IsRejectNever(cfg) == FALSE

\* line 62
IsReject(cfg) == cfg[2] = reject

\* Faulty variant: the limit test is off by one.
LimitExceededLate(n) == n > transition_limit + 1

\* line 69
LimitExceeded(n) == n > transition_limit

\* Faulty variant: the depth test of the specification's step 2d.
DepthExceededLate(tree) == Len(tree) > depth_limit + 1

\* Faulty variant: the depth test is off by one the other way.
DepthExceededEarly(tree) == Len(tree) >= depth_limit

\* line 111
DepthExceeded(tree) == Len(tree) > depth_limit

\* Faulty variant: only the first configuration of the level is looked at.
AllRejectFirstOnly(level) == \A i \in 1..Len(level) : i = 1 => level[i][2] = reject

\* Faulty variant: a level of rejecting configurations never ends the run.
AllRejectNever(level) == FALSE

\* line 117: not any(cfg[1] != self.reject for cfg in next_level)
AllReject(level) == \A i \in 1..Len(level) : level[i][2] = reject

\* lines 107-108
AppendLevel(tree, level) == IF level # << >> THEN Append(tree, level) ELSE tree

RECURSIVE CountConfigs(_, _)
\* lines 126-129: configurations in levels 0..depth
CountConfigs(tree, depth) ==
    IF depth < 0 THEN 0
    ELSE Len(tree[depth + 1]) + CountConfigs(tree, depth - 1)

RECURSIVE ListConfigsShort(_, _)
\* Faulty variant: range(depth) instead of range(depth + 1).
ListConfigsShort(tree, depth) ==
    IF depth < 1 THEN << >>
    ELSE ListConfigsShort(tree, depth - 1)
         \o [ j \in 1..Len(tree[depth]) |-> <<depth - 1, tree[depth][j]>> ]

RECURSIVE ListConfigs(_, _)
\* lines 127-130: the "Level i: config" lines, levels 0..depth in order
ListConfigs(tree, depth) ==
    IF depth < 0 THEN << >>
    ELSE ListConfigs(tree, depth - 1)
         \o [ j \in 1..Len(tree[depth + 1]) |-> <<depth, tree[depth + 1][j]>> ]

\* Faulty variant: the tree of the previous run is kept.
InitialTreeKept(data) ==
    IF config_tree = << >> THEN << << <<<< >>, start, data>> >> >> ELSE config_tree

\* lines 43-44: [[["", self.start, input_data]]]
InitialTree(data) == << << <<<< >>, start, data>> >> >>

\* Faulty variant: self.rules[key] on the defaultdict, which inserts a
\* missing key with an empty list.
RulesAfterIndexing(key) ==
    IF key \in DOMAIN rules THEN rules
    ELSE [ k \in DOMAIN rules \cup {key} |-> IF k = key THEN << >> ELSE rules[k] ]

\* line 74: the rule table after self.rules.get(key, [])
RulesAfterGet(key) == rules

current_level == config_tree[Len(config_tree)]

\* The lines one run has printed, with the arguments of the run.
LogEntry(o, d, st, n, l, a, f) ==
    [input |-> input_data, max_depth |-> depth_limit,
     max_steps |-> transition_limit, outcome |-> o, depth |-> d,
     steps |-> st, num_configs |-> n, listed |-> l, average |-> a,
     failure |-> f]

(***************************************************************************)
(* State after construction (__init__ and load_from_file).                 *)
(***************************************************************************)
InitWith(ms) ==
    /\ \E m \in ms : rules = m.rules /\ start = m.start
    /\ accept = "qacc"
    /\ reject = "qrej"
    /\ depth_limit = 100
    /\ transition_limit = 1000
    /\ input_data = << >>
    /\ config_tree = << >>
    /\ next_level = << >>
    /\ idx = 0
    /\ steps_count = 0
    /\ pc = "idle"
    /\ outcome = "none"
    /\ out_depth = NoVal
    /\ out_steps = NoVal
    /\ num_configs = NoVal
    /\ failure = "none"
    /\ listed = << >>
    /\ average = << >>
    /\ log = << >>

Init == InitWith(Machines)

\* lines 38-48: the body of a call of execute
Call(data, max_depth, max_steps) ==
    /\ depth_limit' = max_depth
    /\ transition_limit' = max_steps
    /\ input_data' = data
    /\ config_tree' = InitialTree(data)
    /\ steps_count' = 0
    /\ pc' = "while"
    /\ next_level' = << >>
    /\ idx' = 0
    /\ outcome' = "none"
    /\ out_depth' = NoVal
    /\ out_steps' = NoVal
    /\ num_configs' = NoVal
    /\ failure' = "none"
    /\ listed' = << >>
    /\ average' = << >>
    /\ UNCHANGED <<machine, log>>

\* lines 38-48: the first call on the instance
Execute(data, max_depth, max_steps) ==
    /\ pc = "idle"
    /\ Call(data, max_depth, max_steps)

\* lines 38-48: a later call on the same instance
ExecuteAgain(data, max_depth, max_steps) ==
    /\ pc = "done"
    /\ Len(log) < MaxRuns
    /\ Call(data, max_depth, max_steps)

\* lines 50-52: the loop test succeeds
EnterRound ==
    /\ pc = "while"
    /\ config_tree # << >> /\ steps_count < transition_limit
    /\ next_level' = << >>
    /\ idx' = 1
    /\ pc' = "for"
    /\ UNCHANGED <<machine, depth_limit, transition_limit, input_data,
                   config_tree, steps_count, outcome, out_depth, out_steps,
                   num_configs, failure, listed, average, log>>

\* lines 50, 122: the loop test fails
NoPath ==
    /\ pc = "while"
    /\ ~(config_tree # << >> /\ steps_count < transition_limit)
    /\ outcome' = "NoPath"
    /\ pc' = "done"
    /\ log' = Append(log, LogEntry("NoPath", NoVal, NoVal, NoVal, << >>,
                                   << >>, "none"))
    /\ UNCHANGED <<machine, depth_limit, transition_limit, input_data,
                   config_tree, next_level, idx, steps_count, out_depth,
                   out_steps, num_configs, failure, listed, average>>

\* lines 55-59: acceptance found at position idx
Accept ==
    /\ pc = "for" /\ idx <= Len(current_level)
    /\ IsAccept(current_level[idx])
    /\ outcome' = "Accepted"
    /\ out_steps' = steps_count
    /\ out_depth' = Len(config_tree) - 1
    /\ pc' = "report"
    /\ UNCHANGED <<machine, depth_limit, transition_limit, input_data,
                   config_tree, next_level, idx, steps_count, num_configs,
                   failure, listed, average, log>>

\* lines 62-63
SkipReject ==
    /\ pc = "for" /\ idx <= Len(current_level)
    /\ ~IsAccept(current_level[idx])
    /\ IsReject(current_level[idx])
    /\ idx' = idx + 1
    /\ UNCHANGED <<machine, depth_limit, transition_limit, input_data,
                   config_tree, next_level, steps_count, pc, outcome,
                   out_depth, out_steps, num_configs, failure, listed,
                   average, log>>

\* lines 66-71: the increment passes the limit
TransitionLimit ==
    /\ pc = "for" /\ idx <= Len(current_level)
    /\ ~IsAccept(current_level[idx])
    /\ ~IsReject(current_level[idx])
    /\ steps_count' = steps_count + 1
    /\ LimitExceeded(steps_count + 1)
    /\ outcome' = "TransitionLimitExceeded"
    /\ out_steps' = transition_limit
    /\ pc' = "done"
    /\ log' = Append(log, LogEntry("TransitionLimitExceeded",
                                   NoVal, transition_limit, NoVal, << >>,
                                   << >>, "none"))
    /\ UNCHANGED <<machine, depth_limit, transition_limit, input_data,
                   config_tree, next_level, idx, out_depth, num_configs,
                   failure, listed, average>>

\* lines 66-79: no rule for (state, symbol)
Stuck ==
    /\ pc = "for" /\ idx <= Len(current_level)
    /\ LET cfg == current_level[idx] IN
        /\ ~IsAccept(cfg)
        /\ ~IsReject(cfg)
        /\ ~LimitExceeded(steps_count + 1)
        /\ Transitions(cfg[2], HeadSymbol(cfg[3])) = << >>
        /\ rules' = RulesAfterGet(<<cfg[2], HeadSymbol(cfg[3])>>)
        /\ next_level' = next_level \o NoRuleSuccessors(cfg)
    /\ steps_count' = steps_count + 1
    /\ idx' = idx + 1
    /\ UNCHANGED <<start, accept, reject, depth_limit, transition_limit,
                   input_data, config_tree, pc, outcome, out_depth, out_steps,
                   num_configs, failure, listed, average, log>>

\* lines 66-74, 81-104: every rule for (state, symbol) applied
Expand ==
    /\ pc = "for" /\ idx <= Len(current_level)
    /\ LET cfg == current_level[idx]
           transitions == Transitions(cfg[2], HeadSymbol(cfg[3]))
       IN
        /\ ~IsAccept(cfg)
        /\ ~IsReject(cfg)
        /\ ~LimitExceeded(steps_count + 1)
        /\ transitions # << >>
        /\ rules' = RulesAfterGet(<<cfg[2], HeadSymbol(cfg[3])>>)
        /\ next_level' = next_level \o RuleSuccessors(cfg, transitions)
    /\ steps_count' = steps_count + 1
    /\ idx' = idx + 1
    /\ UNCHANGED <<start, accept, reject, depth_limit, transition_limit,
                   input_data, config_tree, pc, outcome, out_depth, out_steps,
                   num_configs, failure, listed, average, log>>

\* lines 106-114: the level is scanned, the depth limit stops the run
DepthLimit ==
    /\ pc = "for" /\ idx > Len(current_level)
    /\ config_tree' = AppendLevel(config_tree, next_level)
    /\ DepthExceeded(config_tree')
    /\ outcome' = "DepthLimitExceeded"
    /\ out_depth' = depth_limit
    /\ out_steps' = steps_count
    /\ pc' = "done"
    /\ log' = Append(log, LogEntry("DepthLimitExceeded",
                                   depth_limit, steps_count, NoVal, << >>,
                                   << >>, "none"))
    /\ UNCHANGED <<machine, depth_limit, transition_limit, input_data,
                   next_level, idx, steps_count, num_configs, failure,
                   listed, average>>

\* lines 106-120: the level is scanned, every successor is rejecting
Rejected ==
    /\ pc = "for" /\ idx > Len(current_level)
    /\ config_tree' = AppendLevel(config_tree, next_level)
    /\ ~DepthExceeded(config_tree')
    /\ AllReject(next_level)
    /\ outcome' = "Rejected"
    /\ out_depth' = Len(config_tree') - 1
    /\ out_steps' = steps_count
    /\ pc' = "done"
    /\ log' = Append(log, LogEntry("Rejected",
                                   Len(config_tree') - 1, steps_count,
                                   NoVal, << >>, << >>, "none"))
    /\ UNCHANGED <<machine, depth_limit, transition_limit, input_data,
                   next_level, idx, steps_count, num_configs, failure,
                   listed, average>>

\* lines 106-120, 50: the level is scanned, the loop goes on
NextRound ==
    /\ pc = "for" /\ idx > Len(current_level)
    /\ config_tree' = AppendLevel(config_tree, next_level)
    /\ ~DepthExceeded(config_tree')
    /\ ~AllReject(next_level)
    /\ pc' = "while"
    /\ UNCHANGED <<machine, depth_limit, transition_limit, input_data,
                   next_level, idx, steps_count, outcome, out_depth,
                   out_steps, num_configs, failure, listed, average, log>>

\* lines 124-132 with depth > 0; the quotient num_configs/depth is kept as
\* the pair <<num_configs, depth>>
Report ==
    /\ pc = "report"
    /\ num_configs' = CountConfigs(config_tree, out_depth)
    /\ listed' = ListConfigs(config_tree, out_depth)
    /\ out_depth # 0
    /\ average' = <<num_configs', out_depth>>
    /\ pc' = "done"
    /\ log' = Append(log, LogEntry("Accepted", out_depth, out_steps,
                                   num_configs', listed', average', "none"))
    /\ UNCHANGED <<machine, depth_limit, transition_limit, input_data,
                   config_tree, next_level, idx, steps_count, outcome,
                   out_depth, out_steps, failure>>

\* lines 124-132 with depth = 0: num_configs/depth raises ZeroDivisionError
ReportDivByZero ==
    /\ pc = "report"
    /\ num_configs' = CountConfigs(config_tree, out_depth)
    /\ listed' = ListConfigs(config_tree, out_depth)
    /\ out_depth = 0
    /\ failure' = "ZeroDivisionError"
    /\ pc' = "done"
    /\ log' = Append(log, LogEntry("Accepted", out_depth, out_steps,
                                   num_configs', listed', << >>,
                                   "ZeroDivisionError"))
    /\ UNCHANGED <<machine, depth_limit, transition_limit, input_data,
                   config_tree, next_level, idx, steps_count, outcome,
                   out_depth, out_steps, average>>

Next ==
    \/ \E data \in Inputs, max_depth \in 0..MaxDepthArg, max_steps \in 0..MaxStepsArg :
           Execute(data, max_depth, max_steps)
    \/ EnterRound
    \/ NoPath
    \/ Accept
    \/ SkipReject
    \/ TransitionLimit
    \/ Stuck
    \/ Expand
    \/ DepthLimit
    \/ Rejected
    \/ NextRound
    \/ Report
    \/ ReportDivByZero

Spec == Init /\ [][Next]_vars

(***************************************************************************)
(* The same instance with limits that may be negative: execute has no      *)
(* test of its arguments.                                                  *)
(***************************************************************************)
SmallMachines ==
    { [rules |-> MkRules(la, << >>), start |-> "q0"] : la \in RuleLists(SmallRules) }
    \cup { [rules |-> EmptyRules, start |-> "qacc"],
           [rules |-> EmptyRules, start |-> "qrej"] }

SmallInputs == UNION { [1..k -> {"a"}] : k \in 0..SmallInputLen }

AnyLimits == {-1} \cup 0..SmallLimit

InitSmall == InitWith(SmallMachines)

NextAnyLimits ==
    \/ \E data \in SmallInputs, max_depth \in AnyLimits, max_steps \in AnyLimits :
           Execute(data, max_depth, max_steps)
    \/ EnterRound
    \/ NoPath
    \/ Accept
    \/ SkipReject
    \/ TransitionLimit
    \/ Stuck
    \/ Expand
    \/ DepthLimit
    \/ Rejected
    \/ NextRound
    \/ Report
    \/ ReportDivByZero

SpecAnyLimits == InitSmall /\ [][NextAnyLimits]_vars

(***************************************************************************)
(* The same instance called up to MaxRuns times in sequence.               *)
(***************************************************************************)
NextRerun ==
    \/ \E data \in SmallInputs, max_depth \in 0..SmallLimit, max_steps \in 0..SmallLimit :
           Execute(data, max_depth, max_steps)
    \/ \E data \in SmallInputs, max_depth \in 0..SmallLimit, max_steps \in 0..SmallLimit :
           ExecuteAgain(data, max_depth, max_steps)
    \/ EnterRound
    \/ NoPath
    \/ Accept
    \/ SkipReject
    \/ TransitionLimit
    \/ Stuck
    \/ Expand
    \/ DepthLimit
    \/ Rejected
    \/ NextRound
    \/ Report
    \/ ReportDivByZero

SpecRerun == InitSmall /\ [][NextRerun]_vars

(***************************************************************************)
(* execute as a function of the rule table: the outcome, the depth and the *)
(* transition count it prints for the current input and limits.            *)
(***************************************************************************)
\* line 74 on a given rule table
TransitionsOf(rls, state, symbol) ==
    IF <<state, symbol>> \in DOMAIN rls THEN rls[<<state, symbol>>] ELSE << >>

RECURSIVE ScanLevel(_, _, _, _, _)
\* lines 54-104: the scan of one level from position i
ScanLevel(rls, level, i, nxt, steps) ==
    IF i > Len(level) THEN [kind |-> "end", next |-> nxt, steps |-> steps]
    ELSE IF IsAccept(level[i])
    THEN [kind |-> "accept", next |-> nxt, steps |-> steps]
    ELSE IF IsReject(level[i]) THEN ScanLevel(rls, level, i + 1, nxt, steps)
    ELSE IF LimitExceeded(steps + 1)
    THEN [kind |-> "limit", next |-> nxt, steps |-> steps + 1]
    ELSE LET tr == TransitionsOf(rls, level[i][2], HeadSymbol(level[i][3]))
         IN  ScanLevel(rls, level, i + 1,
                       nxt \o (IF tr = << >> THEN NoRuleSuccessors(level[i])
                               ELSE RuleSuccessors(level[i], tr)),
                       steps + 1)

RECURSIVE RunFrom(_, _, _)
\* lines 50-122: the rounds from a given tree and count
RunFrom(rls, tree, steps) ==
    IF ~(tree # << >> /\ steps < transition_limit)
    THEN <<"NoPath", NoVal, NoVal>>
    ELSE LET r == ScanLevel(rls, tree[Len(tree)], 1, << >>, steps)
             grown == AppendLevel(tree, r.next)
         IN  IF r.kind = "accept" THEN <<"Accepted", Len(tree) - 1, r.steps>>
             ELSE IF r.kind = "limit"
             THEN <<"TransitionLimitExceeded", NoVal, transition_limit>>
             ELSE IF DepthExceeded(grown)
             THEN <<"DepthLimitExceeded", depth_limit, r.steps>>
             ELSE IF AllReject(r.next)
             THEN <<"Rejected", Len(grown) - 1, r.steps>>
             ELSE RunFrom(rls, grown, r.steps)

\* lines 38-122
RunResult(rls) == RunFrom(rls, << << <<<< >>, start, input_data>> >> >>, 0)

(***************************************************************************)
(* Vocabulary of the properties.                                           *)
(***************************************************************************)
Halted == pc \in {"report", "done"}

Depth == Len(config_tree) - 1

Live(cfg) == cfg[2] # accept /\ cfg[2] # reject

HasAccept(level) == \E i \in 1..Len(level) : level[i][2] = accept

FirstAccept(level) ==
    CHOOSE i \in 1..Len(level) :
        level[i][2] = accept /\ \A j \in 1..(i - 1) : level[j][2] # accept

LiveBetween(level, from, to) ==
    Cardinality({ i \in from..to : i \in 1..Len(level) /\ Live(level[i]) })

\* What the scan of a configuration appends to next_level.
Successors(cfg) ==
    IF ~Live(cfg) THEN << >>
    ELSE IF <<cfg[2], HeadSymbol(cfg[3])>> \in DOMAIN rules
    THEN [ i \in 1..Len(rules[<<cfg[2], HeadSymbol(cfg[3])>>]) |->
             ApplyRule(cfg, rules[<<cfg[2], HeadSymbol(cfg[3])>>][i]) ]
    ELSE << <<cfg[1], reject, cfg[3]>> >>

RECURSIVE SuccessorsUpTo(_, _)
SuccessorsUpTo(level, n) ==
    IF n = 0 THEN << >>
    ELSE SuccessorsUpTo(level, n - 1) \o Successors(level[n])

\* Configurations still to be expanded before the first accept-state
\* configuration of the last level is examined, added to those already
\* counted.
ExpandedBeforeAccept ==
    LET from == IF outcome = "TransitionLimitExceeded" THEN idx + 1
                ELSE IF outcome = "Accepted" THEN idx
                ELSE 1
    IN  steps_count + LiveBetween(current_level, from, FirstAccept(current_level) - 1)

RECURSIVE ReachFrom(_)
\* States some rule sequence leads to.
ReachFrom(S) ==
    LET N == S \cup UNION { { rules[k][i][1] : i \in 1..Len(rules[k]) } :
                              k \in { x \in DOMAIN rules : x[1] \in S } }
    IN  IF N = S THEN S ELSE ReachFrom(N)

NoRoute == accept \notin ReachFrom({start})

FiveOutcomes ==
    {"Accepted", "Rejected", "DepthLimitExceeded", "TransitionLimitExceeded",
     "NoPath"}

(***************************************************************************)
(* C1 (as stated): if the first accept-state configuration sits at level d *)
(* with d <= max_depth and at most max_transitions configurations are      *)
(* expanded before it is examined, the run ends Accepted with depth d.     *)
(***************************************************************************)
C1_AcceptWithinLimits ==
    (/\ pc = "done"
     /\ HasAccept(current_level)
     /\ Depth <= depth_limit
     /\ ExpandedBeforeAccept <= transition_limit)
    => (outcome = "Accepted" /\ out_depth = Depth)

(***************************************************************************)
(* C1 (amended): if the first accept-state configuration sits at level d,  *)
(* with d = 0 or d < max_depth, and fewer than max_transitions             *)
(* configurations are expanded before it is examined, the run takes the    *)
(* acceptance halt and reports depth d.                                    *)
(***************************************************************************)
C1_AcceptStrictlyWithinLimits ==
    (/\ pc = "done"
     /\ HasAccept(current_level)
     /\ (Depth = 0 \/ Depth < depth_limit)
     /\ ExpandedBeforeAccept < transition_limit)
    => (outcome = "Accepted" /\ out_depth = Depth)

\* Scenario A: one rule (q0, a) -> (accept, a, R) on input "a".
C1_Witness ==
    /\ pc = "done"
    /\ start = "q0"
    /\ DOMAIN rules = {KeyA}
    /\ rules[KeyA] = << <<"qacc", "a", "R">> >>
    /\ input_data = <<"a">>
    /\ depth_limit = MaxDepthArg /\ transition_limit = MaxStepsArg
    /\ outcome = "Accepted" /\ out_depth = 1 /\ out_steps = 1
    /\ failure = "none"

(***************************************************************************)
(* C2: when the run is Accepted at depth d, no level above d holds an      *)
(* accept-state configuration, the accepting configuration is the first    *)
(* accept-state configuration of level d, and nothing after it in level d  *)
(* has been examined or expanded.                                          *)
(***************************************************************************)
C2_ShallowestFirstAccept ==
    outcome = "Accepted" =>
        /\ out_depth = Depth
        /\ \A i \in 1..(Len(config_tree) - 1) : ~HasAccept(config_tree[i])
        /\ idx \in 1..Len(current_level)
        /\ current_level[idx][2] = accept
        /\ \A j \in 1..(idx - 1) : current_level[j][2] # accept
        /\ next_level = SuccessorsUpTo(current_level, idx - 1)

\* Accepted at depth 2 or more at a configuration that is followed, in its
\* level, by another accept-state configuration.
C2_Witness ==
    /\ outcome = "Accepted" /\ pc = "done"
    /\ out_depth >= 2
    /\ idx < Len(current_level)
    /\ HasAccept(SubSeq(current_level, idx + 1, Len(current_level)))

(***************************************************************************)
(* C3 (as stated): a machine without a route to accept_state ends Rejected *)
(* or NoPath.                                                              *)
(***************************************************************************)
C3_NoRouteRejectedOrNoPath ==
    (NoRoute /\ pc = "done") => outcome \in {"Rejected", "NoPath"}

(***************************************************************************)
(* C3 (amended): a machine without a route to accept_state is never        *)
(* Accepted: its run ends Rejected, NoPath, DepthLimitExceeded or          *)
(* TransitionLimitExceeded, and no accept-state configuration enters the   *)
(* tree.                                                                   *)
(***************************************************************************)
C3_NoRouteNeverAccepted ==
    NoRoute =>
        /\ outcome # "Accepted"
        /\ \A i \in 1..Len(config_tree) : ~HasAccept(config_tree[i])
        /\ ~HasAccept(next_level)
        /\ pc = "done" =>
             outcome \in {"Rejected", "NoPath", "DepthLimitExceeded",
                          "TransitionLimitExceeded"}

C3_Witness ==
    /\ NoRoute /\ pc = "done"
    /\ DOMAIN rules # {}
    /\ outcome = "DepthLimitExceeded"
    /\ depth_limit >= 2

(***************************************************************************)
(* C4 (as stated): steps_count never decreases and never exceeds           *)
(* max_transitions.                                                        *)
(***************************************************************************)
C4_CounterWithinLimit ==
    [][pc # "idle" =>
         (steps_count' >= steps_count /\ steps_count' <= transition_limit')]_vars

(***************************************************************************)
(* C4 (amended): steps_count never decreases and never exceeds             *)
(* max_transitions + 1; it exceeds max_transitions only at the             *)
(* TransitionLimitExceeded halt, and every reported transition count is    *)
(* at most max_transitions.                                                *)
(***************************************************************************)
C4_CounterWithinLimitPlusOne ==
    [][pc # "idle" =>
         /\ steps_count' >= steps_count
         /\ steps_count' <= transition_limit' + 1
         /\ steps_count' > transition_limit' =>
                (outcome' = "TransitionLimitExceeded" /\ pc' = "done")
         /\ outcome' \in {"Accepted", "Rejected", "DepthLimitExceeded",
                          "TransitionLimitExceeded"} =>
                out_steps' <= transition_limit']_vars

C4_Witness ==
    /\ pc = "done" /\ outcome = "TransitionLimitExceeded"
    /\ steps_count = transition_limit + 1
    /\ out_steps = transition_limit

(***************************************************************************)
(* C5: a reported depth (Accepted, Rejected, DepthLimitExceeded) is at     *)
(* most max_depth and equals the depth of the tree at the halt.            *)
(***************************************************************************)
C5_ReportedDepthIsTreeDepth ==
    (Halted /\ outcome \in {"Accepted", "Rejected", "DepthLimitExceeded"})
    => (out_depth <= depth_limit /\ out_depth = Depth)

(***************************************************************************)
(* C6 (as stated): the run halts DepthLimitExceeded exactly when, after a  *)
(* round, the tree is longer than max_depth + 1.                           *)
(***************************************************************************)
C6_DepthHaltAbovePlusOne ==
    [][/\ (pc = "for" /\ idx > Len(current_level)) =>
            ((outcome' = "DepthLimitExceeded") <=>
                 (Len(config_tree') > depth_limit + 1))
       /\ (outcome # "DepthLimitExceeded" /\ outcome' = "DepthLimitExceeded") =>
            (pc = "for" /\ idx > Len(current_level))]_vars

(***************************************************************************)
(* C6 (amended): the run halts DepthLimitExceeded exactly when, after a    *)
(* round, the tree is longer than max_depth; a tree that never holds more  *)
(* than max_depth levels is never stopped by the depth limit, and a run    *)
(* whose tree reaches depth max_depth is stopped by it.                    *)
(***************************************************************************)
C6_DepthHaltAboveLimit ==
    [][/\ (pc = "for" /\ idx > Len(current_level)) =>
            ((outcome' = "DepthLimitExceeded") <=>
                 (Len(config_tree') > depth_limit))
       /\ (outcome # "DepthLimitExceeded" /\ outcome' = "DepthLimitExceeded") =>
            (pc = "for" /\ idx > Len(current_level))
       /\ (pc' = "done" /\ outcome' \in {"Accepted", "Rejected", "NoPath"}) =>
            Len(config_tree') <= depth_limit \/ Len(config_tree') = 1]_vars

\* A machine whose last level at depth max_depth holds an accept-state
\* configuration is stopped by the depth limit.
C6_Witness ==
    /\ pc = "done" /\ outcome = "DepthLimitExceeded"
    /\ depth_limit >= 1
    /\ Depth = depth_limit
    /\ HasAccept(current_level)

(***************************************************************************)
(* C7: a machine that never halts, given more transitions than it needs,   *)
(* halts DepthLimitExceeded reporting depth max_depth, and the deepest     *)
(* level of the tree is then level max_depth.                              *)
(***************************************************************************)
NeverHalts ==
    /\ start = "q0"
    /\ DOMAIN rules = {KeyA, KeyBlank}
    /\ rules[KeyA] = << <<"q0", "a", "R">> >>
    /\ rules[KeyBlank] = << <<"q0", "_", "R">> >>

C7_LoopHaltsAtMaxDepth ==
    (NeverHalts /\ pc = "done" /\ transition_limit > depth_limit)
    => /\ outcome = "DepthLimitExceeded"
       /\ out_depth = depth_limit
       /\ Depth = depth_limit

(***************************************************************************)
(* C8 (as stated): a live configuration without a rule gets exactly one    *)
(* successor (left, reject_state, right) and one count; a round in which   *)
(* every branch of level d-1 is stuck halts Rejected at depth d.           *)
(***************************************************************************)
StuckAt(cfg) == Live(cfg) /\ <<cfg[2], HeadSymbol(cfg[3])>> \notin DOMAIN rules

AllStuck(level) ==
    /\ \A i \in 1..Len(level) : level[i][2] = reject \/ StuckAt(level[i])
    /\ \E i \in 1..Len(level) : StuckAt(level[i])

C8_StuckRejects ==
    [][/\ (pc = "for" /\ idx <= Len(current_level) /\ StuckAt(current_level[idx])) =>
            /\ next_level' =
                   Append(next_level,
                          <<current_level[idx][1], reject, current_level[idx][3]>>)
            /\ steps_count' = steps_count + 1
       /\ (pc = "for" /\ idx > Len(current_level) /\ AllStuck(current_level)) =>
            /\ outcome' = "Rejected"
            /\ out_depth' = Len(config_tree)
            /\ Len(config_tree') = Len(config_tree) + 1]_vars

(***************************************************************************)
(* C8 (amended): a live configuration without a rule is counted once and,  *)
(* unless that count passes max_transitions (the run then halts            *)
(* TransitionLimitExceeded), gets exactly one successor                    *)
(* (left, reject_state, right); a completed round in which every branch of *)
(* level d-1 is stuck halts Rejected at depth d when d < max_depth and     *)
(* DepthLimitExceeded otherwise.                                           *)
(***************************************************************************)
C8_StuckRejectsBelowMaxDepth ==
    [][/\ (pc = "for" /\ idx <= Len(current_level) /\ StuckAt(current_level[idx])) =>
            /\ steps_count' = steps_count + 1
            /\ config_tree' = config_tree
            /\ IF steps_count + 1 <= transition_limit
               THEN next_level' =
                        Append(next_level,
                               <<current_level[idx][1], reject, current_level[idx][3]>>)
               ELSE next_level' = next_level
                    /\ outcome' = "TransitionLimitExceeded"
       /\ (pc = "for" /\ idx > Len(current_level) /\ AllStuck(current_level)) =>
            /\ Len(config_tree') = Len(config_tree) + 1
            /\ pc' = "done"
            /\ IF Len(config_tree) < depth_limit
               THEN outcome' = "Rejected" /\ out_depth' = Len(config_tree)
               ELSE outcome' = "DepthLimitExceeded"]_vars

\* Scenario B: no rule at all, input "".
C8_Witness ==
    /\ pc = "done"
    /\ start = "q0" /\ DOMAIN rules = {}
    /\ input_data = << >>
    /\ depth_limit = MaxDepthArg /\ transition_limit = MaxStepsArg
    /\ outcome = "Rejected" /\ out_depth = 1 /\ out_steps = 1
    /\ config_tree = << << << << >>, "q0", << >> >> >>,
                        << << << >>, reject, << >> >> >> >>

(***************************************************************************)
(* C9: with the two rules for (q0, a), one to accept and one looping to    *)
(* q0, input "a" and ample limits, the run is Accepted at depth 1 in       *)
(* either order of the two rules.                                          *)
(***************************************************************************)
ToAccept == <<"qacc", "a", "R">>
ToLoop == <<"q0", "a", "R">>

ScenarioD ==
    /\ start = "q0"
    /\ KeyA \in DOMAIN rules
    /\ rules[KeyA] \in { <<ToAccept, ToLoop>>, <<ToLoop, ToAccept>> }
    /\ input_data = <<"a">>
    /\ depth_limit >= 2 /\ transition_limit >= 2

C9_BranchingRace ==
    (ScenarioD /\ pc = "done")
    => (outcome = "Accepted" /\ out_depth = 1 /\ failure = "none")

\* The looping rule comes first: the looping branch is expanded before the
\* accepting configuration is examined.
C9_Witness ==
    /\ ScenarioD /\ pc = "done"
    /\ rules[KeyA] = <<ToLoop, ToAccept>>
    /\ outcome = "Accepted" /\ out_depth = 1 /\ out_steps = 2

(***************************************************************************)
(* C10: every run ends in exactly one of the five outcomes, none ends in a *)
(* failure, and every round that does not halt increases steps_count.      *)
(***************************************************************************)
C10_TotalAndProgress ==
    /\ pc = "done" => (outcome \in FiveOutcomes /\ failure = "none")
    /\ pc \in {"while", "for"} => steps_count >= Len(config_tree) - 1
    /\ steps_count <= transition_limit + 1

(***************************************************************************)
(* C11: acceptance at depth 0 ends without failure and leaves the average  *)
(* branching undefined (not computed); at depth > 0 the average is         *)
(* num_configs / depth.                                                    *)
(***************************************************************************)
C11_DepthZeroAverageUndefined ==
    (pc = "done" /\ outcome = "Accepted") =>
        /\ failure = "none"
        /\ IF out_depth = 0 THEN average = << >>
           ELSE average = <<num_configs, out_depth>>

(***************************************************************************)
(* C12: a call with a negative max_depth or max_transitions is refused     *)
(* with InvalidArgument: no round is run, no configuration is expanded and *)
(* no ordinary outcome is reported.                                        *)
(***************************************************************************)
C12_NegativeLimitsRefused ==
    (pc # "idle" /\ (depth_limit < 0 \/ transition_limit < 0)) =>
        /\ pc \notin {"for", "report"}
        /\ steps_count = 0
        /\ outcome = "none"
        /\ pc = "done" => failure = "InvalidArgument"

(***************************************************************************)
(* C13: two calls with the same input and limits on one instance print the *)
(* same report, and what a call prints is what a call on a fresh instance  *)
(* prints for its arguments, whatever was run before: the tree and the     *)
(* counter start fresh and the stored limits are those of the call.        *)
(***************************************************************************)
SameArguments(e, f) ==
    e.input = f.input /\ e.max_depth = f.max_depth /\ e.max_steps = f.max_steps

C13_RunsAreIndependent ==
    /\ \A i, j \in 1..Len(log) : SameArguments(log[i], log[j]) => log[i] = log[j]
    /\ pc = "while" /\ idx = 0 =>
         /\ config_tree = << << <<<< >>, start, input_data>> >> >>
         /\ steps_count = 0
         /\ outcome = "none"
    /\ pc = "done" =>
         /\ log # << >>
         /\ log[Len(log)].max_depth = depth_limit
         /\ log[Len(log)].max_steps = transition_limit
         /\ <<log[Len(log)].outcome, log[Len(log)].depth, log[Len(log)].steps>>
                = RunResult(rules)

\* The same call made twice, accepted at depth 1 or more both times.
C13_Witness ==
    /\ pc = "done" /\ Len(log) = 2
    /\ SameArguments(log[1], log[2])
    /\ log[2].outcome = "Accepted" /\ log[2].depth >= 1
    /\ log[2].listed # << >>

(***************************************************************************)
(* C14: when the run is Accepted at depth d the report lists every         *)
(* configuration of every level 0..d of the tree, in level order; each of  *)
(* these levels is non-empty and level 0 is the initial configuration      *)
(* alone, so at least d + 1 configurations are reported.                   *)
(***************************************************************************)
RECURSIVE TotalConfigs(_)
TotalConfigs(tree) ==
    IF tree = << >> THEN 0 ELSE Len(Head(tree)) + TotalConfigs(Tail(tree))

C15_LevelsAreSuccessorLists ==
    pc # "idle" =>
        /\ config_tree[1] = << <<<< >>, start, input_data>> >>
        /\ \A i \in 1..(Len(config_tree) - 1) :
               config_tree[i + 1] = SuccessorsUpTo(config_tree[i], Len(config_tree[i]))

\* A level that holds a rejecting configuration before a live one with two
\* different successors, and the level built from it.
C15_Witness ==
    /\ pc = "done"
    /\ \E i \in 1..(Len(config_tree) - 1) :
          /\ Len(config_tree[i]) >= 2
          /\ config_tree[i][1][2] = reject
          /\ Live(config_tree[i][2])
          /\ Len(config_tree[i + 1]) = 2
          /\ config_tree[i + 1][1] # config_tree[i + 1][2]

(***************************************************************************)
(* C16: a rule (next_state, w, dir) applied to (left, state, right) gives, *)
(* with r' = w followed by right without its first cell: for L, (left      *)
(* without its last cell, next_state, last cell of left followed by r'),   *)
(* a blank being moved when left is empty; for R, (left followed by w,     *)
(* next_state, rest of r'), the rest being one blank when it is empty.     *)
(* Every configuration so produced has a non-empty right part, and the     *)
(* tree that holds the parent is not changed.                              *)
(***************************************************************************)
ClaimedResult(cfg, rule) ==
    LET r1 == <<rule[2]>> \o (IF cfg[3] = << >> THEN << >> ELSE Tail(cfg[3]))
    IN  IF rule[3] = "L"
        THEN IF cfg[1] = << >>
             THEN << << >>, rule[1], <<BLANK>> \o r1 >>
             ELSE << SubSeq(cfg[1], 1, Len(cfg[1]) - 1), rule[1],
                     <<cfg[1][Len(cfg[1])]>> \o r1 >>
        ELSE << cfg[1] \o <<rule[2]>>, rule[1],
                IF Len(r1) = 1 THEN <<BLANK>> ELSE SubSeq(r1, 2, Len(r1)) >>

C16_RuleApplication ==
    [][(/\ pc = "for" /\ idx <= Len(current_level)
        /\ Live(current_level[idx])
        /\ <<current_level[idx][2], HeadSymbol(current_level[idx][3])>> \in DOMAIN rules
        /\ steps_count + 1 <= transition_limit)
       => LET cfg == current_level[idx]
              trs == rules[<<cfg[2], HeadSymbol(cfg[3])>>]
          IN  /\ trs # << >>
              /\ \A i \in 1..Len(trs) : trs[i][3] \in {"L", "R"}
              /\ next_level' =
                     next_level \o [ i \in 1..Len(trs) |-> ClaimedResult(cfg, trs[i]) ]
              /\ \A i \in 1..Len(next_level') : next_level'[i][3] # << >>
              /\ config_tree' = config_tree]_vars

\* The configuration ("a", q0, "a") has just been expanded by an R rule,
\* which pads the right part with a blank, and by an L rule, which moves
\* the last cell of a non-empty left part.
C16_Witness ==
    /\ pc = "for" /\ idx = 2
    /\ current_level[1] = << <<"a">>, "q0", <<"a">> >>
    /\ next_level = << << <<"a", "a">>, "q0", <<"_">> >>,
                       << << >>, "q0", <<"a", "a">> >> >>

(***************************************************************************)
(* C17: permuting the entries of transition lists changes only the order   *)
(* of configurations inside a level.  Original statement: every machine    *)
(* obtained by such a permutation returns, on the same input and limits,   *)
(* the same outcome and the same depth.                                    *)
(***************************************************************************)
PermsOf(s) ==
    { [ i \in 1..Len(s) |-> s[f[i]] ] :
        f \in { g \in [1..Len(s) -> 1..Len(s)] :
                  \A i, j \in 1..Len(s) : g[i] = g[j] => i = j } }

RulePermutations(rls) ==
    { p \in [DOMAIN rls -> UNION { PermsOf(rls[k]) : k \in DOMAIN rls }] :
        \A k \in DOMAIN rls : p[k] \in PermsOf(rls[k]) }

C17_OrderIrrelevant ==
    pc = "done" =>
        \A p \in RulePermutations(rules) :
            RunResult(p)[1] = outcome /\ RunResult(p)[2] = out_depth

\* C17 (amended): the permuted machine returns the same outcome and depth,
\* except that one of the two runs may be Accepted where the other is
\* TransitionLimitExceeded: the budget can run out while the level that
\* holds the accepting configuration is scanned, before or after that
\* configuration depending on its position.
C17_OrderDecidesOnlyLimitRace ==
    pc = "done" =>
        \A p \in RulePermutations(rules) :
            \/ RunResult(p)[1] = outcome /\ RunResult(p)[2] = out_depth
            \/ {RunResult(p)[1], outcome} = {"Accepted", "TransitionLimitExceeded"}

\* An accepted run whose permuted machine is a different machine, accepts
\* at the same depth, and spends another number of transitions.
C17_Witness ==
    /\ pc = "done" /\ outcome = "Accepted"
    /\ \E p \in RulePermutations(rules) :
           /\ p # rules
           /\ RunResult(p)[1] = "Accepted"
           /\ RunResult(p)[2] = out_depth
           /\ RunResult(p)[3] # out_steps

(***************************************************************************)
(* C18: NoPath is returned only when the loop exits without an explicit    *)
(* halt.  Original statement: whenever the run returns NoPath the last     *)
(* level of the tree holds no live configuration and no accept-state       *)
(* configuration.                                                          *)
(***************************************************************************)
C18_NoPathNothingLeft ==
    pc = "done" /\ outcome = "NoPath" =>
        \A i \in 1..Len(Last(config_tree)) :
            ~Live(Last(config_tree)[i]) /\ Last(config_tree)[i][2] # accept

\* C18 (amended): NoPath is returned only by the loop test, at the start of
\* a round, when the transition counter equals max_transitions; no depth
\* and no count is reported; the tree is not empty, its depth is within
\* max_depth once a round has completed, and after a completed round its
\* last level still holds a configuration that is not rejecting, which is
\* left unexamined.
C18_NoPathIsBudgetAtRoundStart ==
    [][(pc # "done" /\ pc' = "done" /\ outcome' = "NoPath") =>
          /\ pc = "while"
          /\ steps_count = transition_limit
          /\ UNCHANGED <<config_tree, steps_count, out_depth, out_steps, failure>>
          /\ out_depth = NoVal /\ out_steps = NoVal /\ failure = "none"
          /\ config_tree # << >>
          /\ Len(config_tree) > 1 =>
                 /\ Len(config_tree) <= depth_limit
                 /\ \E i \in 1..Len(Last(config_tree)) :
                        Last(config_tree)[i][2] # reject]_vars

\* NoPath after two completed rounds, with an accept-state configuration
\* waiting in the last level.
C18_Witness ==
    /\ pc = "done" /\ outcome = "NoPath"
    /\ Len(config_tree) = 3
    /\ \E i \in 1..Len(Last(config_tree)) : Last(config_tree)[i][2] = accept

(***************************************************************************)
(* C19: the transition counter counts exactly the configurations examined  *)
(* for expansion: at every halt it is the number of live configurations    *)
(* (state neither accept nor reject, stuck ones included) of the fully     *)
(* processed levels plus those examined in the current level before the    *)
(* halt.  At Rejected at depth d it is the number of non-reject            *)
(* configurations of levels 0..d-1; at Accepted the configurations after   *)
(* the accepting one are not counted.                                      *)
(***************************************************************************)
RECURSIVE LiveInLevels(_, _)
LiveInLevels(tree, n) ==
    IF n <= 0 THEN 0
    ELSE LiveInLevels(tree, n - 1) + LiveBetween(tree[n], 1, Len(tree[n]))

RECURSIVE NonRejectInLevels(_, _)
NonRejectInLevels(tree, n) ==
    IF n <= 0 THEN 0
    ELSE NonRejectInLevels(tree, n - 1)
         + Cardinality({ i \in 1..Len(tree[n]) : tree[n][i][2] # reject })

C19_CounterCountsExamined ==
    LET before == LiveInLevels(config_tree, Len(config_tree) - 1)
    IN  /\ pc = "while" => steps_count = before
        /\ pc = "for" =>
               steps_count = before + LiveBetween(current_level, 1, idx - 1)
        /\ Halted /\ outcome = "Accepted" =>
               /\ current_level[idx][2] = accept
               /\ steps_count = before + LiveBetween(current_level, 1, idx - 1)
               /\ out_steps = steps_count
        /\ Halted /\ outcome = "TransitionLimitExceeded" =>
               /\ Live(current_level[idx])
               /\ steps_count = before + LiveBetween(current_level, 1, idx)
        /\ Halted /\ outcome \in {"DepthLimitExceeded", "Rejected"} =>
               /\ steps_count = before
               /\ out_steps = steps_count
        /\ Halted /\ outcome = "Rejected" =>
               /\ out_depth = Len(config_tree) - 1
               /\ steps_count = NonRejectInLevels(config_tree, out_depth)
        /\ Halted /\ outcome = "NoPath" => steps_count = before

\* An accepted run that has counted a stuck configuration of an earlier
\* level and leaves the configurations after the accepting one uncounted.
C19_Witness ==
    /\ pc = "done" /\ outcome = "Accepted"
    /\ idx < Len(current_level)
    /\ \E i \in 1..(Len(config_tree) - 1) :
           \E j \in 1..Len(config_tree[i]) : StuckAt(config_tree[i][j])
    /\ steps_count + 1 < TotalConfigs(config_tree)

(***************************************************************************)
(* C20: a run leaves the machine description unchanged: the rule table     *)
(* with its set of keys (looking up a missing key adds no entry), start,   *)
(* accept and reject are the same after every step; within a run the tree  *)
(* is append-only, a level is scanned once, front to back, and the tree    *)
(* gains exactly one level in every round that does not halt.              *)
(***************************************************************************)
C20_MachineAndTreeFrame ==
    [][/\ rules' = rules
       /\ DOMAIN rules' = DOMAIN rules
       /\ start' = start /\ accept' = accept /\ reject' = reject
       /\ pc # "idle" =>
              /\ Len(config_tree') \in {Len(config_tree), Len(config_tree) + 1}
              /\ SubSeq(config_tree', 1, Len(config_tree)) = config_tree
              /\ pc = "while" /\ pc' = "for" =>
                     config_tree' = config_tree /\ idx' = 1
              /\ pc = "for" /\ pc' = "for" =>
                     config_tree' = config_tree /\ idx' = idx + 1
              /\ pc = "for" /\ pc' = "while" =>
                     /\ Len(config_tree') = Len(config_tree) + 1
                     /\ idx > Len(current_level)]_vars

\* A finished run of at least two rounds that looked up a key the rule
\* table does not have.
C20_Witness ==
    /\ pc = "done" /\ Len(config_tree) >= 3
    /\ \E i \in 1..(Len(config_tree) - 1) :
           \E j \in 1..Len(config_tree[i]) : StuckAt(config_tree[i][j])
    /\ \E k \in DOMAIN rules : Len(rules[k]) = 2

====
